---- MODULE Spec2Model ----
(***************************************************************************)
(* Model of the dependency graph of fuz_gitops                             *)
(* (src/lib/dependency_graph.ts): DependencyGraph, built once from the     *)
(* package manifests of a list of repos, its queries, its topological      *)
(* sort, its cycle detection by dependency type, and the analysis of       *)
(* DependencyGraphBuilder; and of the gitops_run task                      *)
(* (src/lib/gitops_run.task.ts), which runs a shell command in every repo  *)
(* under a concurrency limit.                                              *)
(*                                                                         *)
(* A JavaScript Map is modelled as a sequence of <<key, value>> pairs in   *)
(* insertion order, a JavaScript Set as a sequence without duplicates in   *)
(* insertion order: the iteration order of both is part of what the code   *)
(* computes (DFS order, order of the items handed to the sort).            *)
(***************************************************************************)
EXTENDS Integers, Sequences, FiniteSets, TLC

VARIABLES
    repos,     \* the Array<LocalRepo> handed to build_from_repos (library.package_json of each)
    graph,     \* the DependencyGraph instance: [nodes, edges]
    op,        \* the last method called on the builder / graph, with its argument
    result,    \* what that call returned or threw
    instances, \* the DependencyGraph objects created so far, by reference (index)
    run        \* one run of the gitops_run task: its position, locals and outcome

vars == <<repos, graph, op, result, instances, run>>

----------------------------------------------------------------------------
(* Bounds of the model.                                                    *)

\* Total number of manifest entries (over all packages and sections) of an
\* input of specification Spec.
MaxDeps == 2

\* Total number of manifest entries of an input of specification SpecGraph.
MaxEdges == 3

\* Package names of the inputs of Spec, and the names a manifest may list.
PkgNames == {"a", "b"}
DepNames == {"a", "b", "ext"}
Versions == {"*", "^1.0.0"}

\* Package names of the inputs of SpecGraph, whose repos come in ascending
\* or descending order of their names; a manifest lists these names only,
\* and a name that is no package of the input is an external one.
GraphPkgNames == {"a", "b", "c"}
GraphVersions == {"^1.0.0"}
\* The package of SpecGraph's inputs that may be private.
GraphPrivateNames == {"c"}

\* Every name the model uses, in the order in which Array.prototype.sort
\* orders them (UTF-16 code units).
SortedNames == <<"a", "b", "c", "ext">>
AllNames == {SortedNames[i] : i \in 1..Len(SortedNames)}

----------------------------------------------------------------------------
(* JavaScript Map and Set, Array helpers.                                  *)

Range(s) == {s[i] : i \in 1..Len(s)}

MapKeys(m) == [i \in 1..Len(m) |-> m[i][1]]
MapHas(m, k) == \E i \in 1..Len(m) : m[i][1] = k
MapGet(m, k) == m[CHOOSE i \in 1..Len(m) : m[i][1] = k][2]

\* Map.prototype.set: an existing key keeps its place and takes the new value.
MapSet(m, k, v) ==
    IF MapHas(m, k)
    THEN [i \in 1..Len(m) |-> IF m[i][1] = k THEN <<k, v>> ELSE m[i]]
    ELSE Append(m, <<k, v>>)

\* Set.prototype.add
SetAdd(s, x) == IF x \in Range(s) THEN s ELSE Append(s, x)

\* Array.prototype.indexOf, 1-based; 0 when absent.
IndexOf(s, x) ==
    IF x \in Range(s) THEN CHOOSE i \in 1..Len(s) : s[i] = x /\ \A j \in 1..(i-1) : s[j] # x
    ELSE 0

----------------------------------------------------------------------------
(* DEPENDENCY_TYPE                                                         *)

PROD == "prod"
PEER == "peer"
DEV == "dev"

----------------------------------------------------------------------------
(* DependencyGraph: constructor and init_from_repos.                       *)

EmptyGraph == [nodes |-> <<>>, edges |-> <<>>]

\* for (const [name, version] of Object.entries(section)) dependencies.set(name, {type, version})
RECURSIVE SetDependencies(_, _, _)
SetDependencies(dependencies, entries, type) ==
    IF entries = <<>> THEN dependencies
    ELSE SetDependencies(
            MapSet(dependencies, Head(entries)[1], [type |-> type, version |-> Head(entries)[2]]),
            Tail(entries), type)

\* Variant: the dev entry is set even when the name is present.
AddDevDependency_Overwrite(dependencies, name, version) ==
    MapSet(dependencies, name, [type |-> DEV, version |-> version])

\* Only add dev deps if not already present as prod/peer
AddDevDependency(dependencies, name, version) ==
    IF ~MapHas(dependencies, name)
    THEN MapSet(dependencies, name, [type |-> DEV, version |-> version])
    ELSE dependencies

RECURSIVE SetDevDependencies(_, _)
SetDevDependencies(dependencies, entries) ==
    IF entries = <<>> THEN dependencies
    ELSE SetDevDependencies(
            AddDevDependency(dependencies, Head(entries)[1], Head(entries)[2]),
            Tail(entries))

\* Variant: peer entries first, prod entries second.
ExtractDependencies_ProdLast(package_json) ==
    SetDevDependencies(
        SetDependencies(
            SetDependencies(<<>>, package_json.peerDependencies, PEER),
            package_json.dependencies, PROD),
        package_json.devDependencies)

\* The three loops over deps, peer_deps and dev_deps, in the code's order.
ExtractDependencies(package_json) ==
    SetDevDependencies(
        SetDependencies(
            SetDependencies(<<>>, package_json.dependencies, PROD),
            package_json.peerDependencies, PEER),
        package_json.devDependencies)

\* The DependencyNode created for one repo.
NewNode(package_json) ==
    [name |-> package_json.name,
     version |-> IF package_json.version = "" THEN "0.0.0" ELSE package_json.version,
     dependencies |-> ExtractDependencies(package_json),
     dependents |-> <<>>,
     publishable |-> ~package_json.private]

\* First pass: create nodes
RECURSIVE CreateNodes(_, _)
CreateNodes(g, rs) ==
    IF rs = <<>> THEN g
    ELSE CreateNodes(
            [nodes |-> MapSet(g.nodes, Head(rs).name, NewNode(Head(rs))),
             edges |-> MapSet(g.edges, Head(rs).name, <<>>)],
            Tail(rs))

\* Variant: the dependency is added to the dependents of the depending node.
AddDependent_Reversed(g, node_name, dep_name) ==
    IF MapHas(g.nodes, dep_name)
    THEN [nodes |-> MapSet(g.nodes, node_name,
                      [MapGet(g.nodes, node_name) EXCEPT !.dependents = SetAdd(@, dep_name)]),
          edges |-> MapSet(g.edges, node_name, SetAdd(MapGet(g.edges, node_name), dep_name))]
    ELSE g

\* The body of the second pass for one (node, dep_name).
AddDependent(g, node_name, dep_name) ==
    IF MapHas(g.nodes, dep_name)
    THEN [nodes |-> MapSet(g.nodes, dep_name,
                      [MapGet(g.nodes, dep_name) EXCEPT !.dependents = SetAdd(@, node_name)]),
          edges |-> MapSet(g.edges, dep_name, SetAdd(MapGet(g.edges, dep_name), node_name))]
    ELSE g

\* Second pass: build edges (dependents); i walks the nodes, j the
\* dependencies of node i.
RECURSIVE BuildEdges(_, _, _)
BuildEdges(g, i, j) ==
    IF i > Len(g.nodes) THEN g
    ELSE LET node == g.nodes[i][2] IN
         IF j > Len(node.dependencies) THEN BuildEdges(g, i + 1, 1)
         ELSE BuildEdges(AddDependent(g, node.name, node.dependencies[j][1]), i, j + 1)

init_from_repos(g, rs) == BuildEdges(CreateNodes(g, rs), 1, 1)

\* DependencyGraphBuilder.build_from_repos
build_from_repos(rs) == init_from_repos(EmptyGraph, rs)

----------------------------------------------------------------------------
(* Queries.                                                                *)

\* A JavaScript value that may be undefined.
Undefined == [defined |-> FALSE]
Defined(value) == [defined |-> TRUE, value |-> value]

\* this.nodes.get(name)
get_node(g, name) ==
    IF MapHas(g.nodes, name) THEN Defined(MapGet(g.nodes, name)) ELSE Undefined

\* Variant: this.edges.get(name), without the default.
get_dependents_NoDefault(g, name) ==
    IF MapHas(g.edges, name) THEN Defined(MapGet(g.edges, name)) ELSE Undefined

\* this.edges.get(name) || new Set()
get_dependents(g, name) ==
    IF MapHas(g.edges, name) THEN Defined(MapGet(g.edges, name)) ELSE Defined(<<>>)

\* node ? node.dependencies : new Map()
get_dependencies(g, name) ==
    IF MapHas(g.nodes, name) THEN Defined(MapGet(g.nodes, name).dependencies)
    ELSE Defined(<<>>)

----------------------------------------------------------------------------
(* topological_sort.                                                       *)

\* Variant: exclude_dev drops the peer dependencies too.
KeepDependency_ProdOnly(g, exclude_dev, dep_name, spec) ==
    IF exclude_dev /\ spec.type # PROD THEN FALSE ELSE MapHas(g.nodes, dep_name)

\* Variant: exclude_dev is ignored.
KeepDependency_DevKept(g, exclude_dev, dep_name, spec) == MapHas(g.nodes, dep_name)

\* Variant: dev dependencies are dropped whatever exclude_dev.
KeepDependency_DevAlwaysDropped(g, exclude_dev, dep_name, spec) ==
    IF spec.type = DEV THEN FALSE ELSE MapHas(g.nodes, dep_name)

\* The filter callback of topological_sort.
KeepDependency(g, exclude_dev, dep_name, spec) ==
    IF exclude_dev /\ spec.type = DEV THEN FALSE ELSE MapHas(g.nodes, dep_name)

\* The items handed to the generic sort: {id, depends_on} per node, in
\* the insertion order of nodes and of each node's dependencies.
SortItems(g, exclude_dev) ==
    [i \in 1..Len(g.nodes) |->
        LET node == g.nodes[i][2]
            Keep(e) == KeepDependency(g, exclude_dev, e[1], e[2])
        IN [id |-> node.name,
            depends_on |-> MapKeys(SelectSeq(node.dependencies, Keep))]]

\* Repeated removal of the first item, in the order of items, all of whose
\* depends_on are already sorted.
RECURSIVE RemoveZeroIndegree(_, _)
RemoveZeroIndegree(items, sorted) ==
    LET ready == {i \in 1..Len(items) :
                    /\ items[i].id \notin Range(sorted)
                    /\ \A d \in Range(items[i].depends_on) : d \in Range(sorted)}
    IN IF ready = {} THEN sorted
       ELSE RemoveZeroIndegree(items,
                Append(sorted, items[CHOOSE i \in ready : \A j \in ready : i <= j].id))

\* topological_sort of @fuzdev/fuz_util/sort.js: {ok: true, sorted} or
\* {ok: false, error}, the error naming the ids left unresolved.
topological_sort_generic(items) ==
    LET sorted == RemoveZeroIndegree(items, <<>>)
        Unresolved(item) == item.id \notin Range(sorted)
    IN IF Len(sorted) = Len(items)
       THEN [ok |-> TRUE, sorted |-> sorted]
       ELSE [ok |-> FALSE, error |-> [i \in 1..Len(SelectSeq(items, Unresolved)) |->
                                        SelectSeq(items, Unresolved)[i].id]]

\* DependencyGraph.topological_sort: the sorted ids, or a thrown Error
\* carrying the generic sort's error.
topological_sort(g, exclude_dev) ==
    LET sort_result == topological_sort_generic(SortItems(g, exclude_dev))
    IN IF ~sort_result.ok
       THEN [kind |-> "throw", error |-> sort_result.error]
       ELSE [kind |-> "return", value |-> sort_result.sorted]

\* DependencyGraphBuilder.compute_publishing_order
compute_publishing_order(g) == topological_sort(g, TRUE)

----------------------------------------------------------------------------
(* detect_cycles_by_type and #find_cycles.                                 *)

\* Variant: both searches follow every dependency, whatever its type.
Include_AnyType(kind, spec) == TRUE

\* Variant: the production search follows the dev dependencies too.
Include_ProductionAnyType(kind, spec) ==
    IF kind = "production" THEN TRUE ELSE spec.type = DEV

\* The two include callbacks of detect_cycles_by_type.
Include(kind, spec) ==
    IF kind = "production" THEN spec.type # DEV ELSE spec.type = DEV

NameRank(name) == CHOOSE i \in 1..Len(SortedNames) : SortedNames[i] = name
NameLeq(x, y) == NameRank(x) <= NameRank(y)

\* [...cycle].sort().join(','): the names, sorted; the model keeps the
\* sorted sequence, which determines the joined string.
CycleKey(cycle) == SortSeq(cycle, NameLeq)

\* Variant: the whole path, not its part from dep_name on.
CycleOf_WholePath(path, dep_name) == Append(path, dep_name)

\* path.slice(path.indexOf(dep_name)).concat(dep_name); slice(-1) is the
\* last element.
CycleOf(path, dep_name) ==
    LET cycle_start == IndexOf(path, dep_name)
    IN Append(SubSeq(path, IF cycle_start = 0 THEN Len(path) ELSE cycle_start, Len(path)),
              dep_name)

\* if (!cycles.some((c) => key(c) === cycle_key)) cycles.push(cycle)
PushCycle(cycles, cycle) ==
    IF \E i \in 1..Len(cycles) : CycleKey(cycles[i]) = CycleKey(cycle)
    THEN cycles
    ELSE Append(cycles, cycle)

\* dfs(name, path) and its loop over node.dependencies from index i on;
\* st is [cycles, visited, rec_stack], the closure's three locals.
RECURSIVE Dfs(_, _, _, _, _)
RECURSIVE DfsDependencies(_, _, _, _, _, _)
Dfs(g, kind, name, path, st) ==
    LET st1 == [st EXCEPT !.visited = @ \cup {name}, !.rec_stack = @ \cup {name}]
        path1 == Append(path, name)
        st2 == IF MapHas(g.nodes, name)
               THEN DfsDependencies(g, kind, path1, MapGet(g.nodes, name).dependencies, 1, st1)
               ELSE st1
    IN [st2 EXCEPT !.rec_stack = @ \ {name}]

DfsDependencies(g, kind, path, dependencies, i, st) ==
    IF i > Len(dependencies) THEN st
    ELSE LET dep_name == dependencies[i][1]
             spec == dependencies[i][2]
             st1 == IF ~Include(kind, spec) THEN st
                    ELSE IF ~MapHas(g.nodes, dep_name) THEN st
                    ELSE IF dep_name \notin st.visited THEN Dfs(g, kind, dep_name, path, st)
                    ELSE IF dep_name \in st.rec_stack
                         THEN [st EXCEPT !.cycles = PushCycle(@, CycleOf(path, dep_name))]
                    ELSE st
         IN DfsDependencies(g, kind, path, dependencies, i + 1, st1)

\* Variant: the search starts from the first node only.
FindCyclesFrom_FirstRootOnly(g, kind, i, st) ==
    IF i > Len(g.nodes) THEN st ELSE Dfs(g, kind, g.nodes[i][1], <<>>, st)

\* for (const name of this.nodes.keys()) if (!visited.has(name)) dfs(name, [])
RECURSIVE FindCyclesFrom(_, _, _, _)
FindCyclesFrom(g, kind, i, st) ==
    IF i > Len(g.nodes) THEN st
    ELSE FindCyclesFrom(g, kind, i + 1,
            IF g.nodes[i][1] \notin st.visited THEN Dfs(g, kind, g.nodes[i][1], <<>>, st)
            ELSE st)

find_cycles(g, kind) ==
    FindCyclesFrom(g, kind, 1, [cycles |-> <<>>, visited |-> {}, rec_stack |-> {}]).cycles

detect_cycles_by_type(g) ==
    [production_cycles |-> find_cycles(g, "production"),
     dev_cycles |-> find_cycles(g, "dev")]

----------------------------------------------------------------------------
(* DependencyGraphBuilder.analyze and DependencyGraph.toJSON.              *)

\* Variant: every range of the model counts as a wildcard.
IsWildcard_Prefix(version) == version \in {"*", "^1.0.0"}

\* spec.version === '*'
IsWildcard(version) == version = "*"

\* Variant: the type of the spec is not looked at.
IsMissingPeer_AnyType(g, dep_name, spec) == ~MapHas(g.nodes, dep_name)

\* spec.type === DEPENDENCY_TYPE.PEER && !graph.nodes.has(dep_name)
IsMissingPeer(g, dep_name, spec) == spec.type = PEER /\ ~MapHas(g.nodes, dep_name)

\* The double loop of analyze; i walks the nodes, j the dependencies of
\* node i; acc is [wildcard_deps, missing_peers].
RECURSIVE ScanDependencies(_, _, _, _)
ScanDependencies(g, i, j, acc) ==
    IF i > Len(g.nodes) THEN acc
    ELSE LET node == g.nodes[i][2] IN
         IF j > Len(node.dependencies) THEN ScanDependencies(g, i + 1, 1, acc)
         ELSE LET dep_name == node.dependencies[j][1]
                  spec == node.dependencies[j][2]
                  w == IF IsWildcard(spec.version)
                       THEN Append(acc.wildcard_deps,
                                [pkg |-> node.name, dep |-> dep_name, version |-> spec.version])
                       ELSE acc.wildcard_deps
                  m == IF IsMissingPeer(g, dep_name, spec)
                       THEN Append(acc.missing_peers, [pkg |-> node.name, dep |-> dep_name])
                       ELSE acc.missing_peers
              IN ScanDependencies(g, i, j + 1, [wildcard_deps |-> w, missing_peers |-> m])

analyze(g) ==
    LET cycles == detect_cycles_by_type(g)
        found == ScanDependencies(g, 1, 1, [wildcard_deps |-> <<>>, missing_peers |-> <<>>])
    IN [production_cycles |-> cycles.production_cycles,
        dev_cycles |-> cycles.dev_cycles,
        wildcard_deps |-> found.wildcard_deps,
        missing_peers |-> found.missing_peers]

\* The edges array of toJSON: {from, to} for every key of edges and every
\* member of its set.
RECURSIVE JsonEdges(_, _, _)
JsonEdges(edges, i, j) ==
    IF i > Len(edges) THEN <<>>
    ELSE IF j > Len(edges[i][2]) THEN JsonEdges(edges, i + 1, 1)
    ELSE <<[from |-> edges[i][1], to |-> edges[i][2][j]]>> \o JsonEdges(edges, i, j + 1)

toJSON(g) ==
    [nodes |-> [i \in 1..Len(g.nodes) |->
                  LET node == g.nodes[i][2] IN
                  [name |-> node.name,
                   version |-> node.version,
                   dependencies |-> [k \in 1..Len(node.dependencies) |->
                                        [name |-> node.dependencies[k][1],
                                         spec |-> node.dependencies[k][2]]],
                   dependents |-> node.dependents,
                   publishable |-> node.publishable]],
     edges |-> JsonEdges(g.edges, 1, 1)]

----------------------------------------------------------------------------
(* Inputs: the package manifests of the repos.                             *)

\* What one package_json adds to the size of an input: its manifest
\* entries, one for "private": true and one for a missing "version".
FlagCost(flag) == IF flag THEN 1 ELSE 0

\* A manifest section (an object name -> version range) with n entries, in
\* the order of Object.entries.
Sections(names, versions, n) ==
    {s \in [1..n -> names \X versions] :
        \A i, j \in 1..n : i # j => s[i][1] # s[j][1]}

\* The package_json of package `name` of size n; privs and no_version are
\* the values "private" and "version is missing" range over.
Packages(name, names, versions, privs, no_version, n) ==
    UNION {
        {[name |-> name,
          version |-> IF k[4] THEN "" ELSE "1.0.0",
          private |-> k[3],
          dependencies |-> d, peerDependencies |-> pe, devDependencies |-> de] :
            d \in Sections(names, versions, k[1]),
            pe \in Sections(names, versions, k[2]),
            de \in Sections(names, versions,
                            n - k[1] - k[2] - FlagCost(k[3]) - FlagCost(k[4]))} :
        k \in {x \in (0..n) \X (0..n) \X privs \X no_version :
                x[1] + x[2] + FlagCost(x[3]) + FlagCost(x[4]) <= n}}

\* Sequences of distinct package names (node names are unique).
NameLists(pkg_names) ==
    UNION {{s \in [1..n -> pkg_names] : \A i, j \in 1..n : i # j => s[i] # s[j]} :
            n \in 0..Cardinality(pkg_names)}

RECURSIVE Sum(_, _)
Sum(f, n) == IF n = 0 THEN 0 ELSE f[n] + Sum(f, n - 1)

\* How a total size of at most `budget` is split over n packages.
Splits(n, budget) == {f \in [1..n -> 0..budget] : Sum(f, n) <= budget}

NoPackage == "none"

\* The choices for the i-th package of a repo list named ns and split by sizes.
PackageAt(ns, sizes, i, names, versions, private_names, no_version) ==
    IF i <= Len(ns)
    THEN Packages(ns[i], names, versions,
                  IF ns[i] \in private_names THEN BOOLEAN ELSE {FALSE},
                  no_version, sizes[i])
    ELSE {NoPackage}

\* The lists of package names in ascending or in descending order of
\* their names.
MonotoneNameLists(pkg_names) ==
    {s \in NameLists(pkg_names) :
        \/ \A i, j \in 1..Len(s) : i < j => NameRank(s[i]) < NameRank(s[j])
        \/ \A i, j \in 1..Len(s) : i < j => NameRank(s[i]) > NameRank(s[j])}

\* repos is a list of at most three packages named by one of name_lists,
\* of size at most `budget` in all; the packages named in private_names
\* may be private.
IsInput(name_lists, names, versions, private_names, no_version, budget) ==
    \E ns \in name_lists :
    \E sizes \in Splits(Len(ns), budget) :
    \E p1 \in PackageAt(ns, sizes, 1, names, versions, private_names, no_version) :
    \E p2 \in PackageAt(ns, sizes, 2, names, versions, private_names, no_version) :
    \E p3 \in PackageAt(ns, sizes, 3, names, versions, private_names, no_version) :
        repos = SubSeq(<<p1, p2, p3>>, 1, Len(ns))

----------------------------------------------------------------------------
(* The state machine: a builder call creates the graph, then any of the    *)
(* graph's methods is called, in any order.                                *)

Call(name, name_arg, exclude_dev) ==
    [name |-> name, name_arg |-> name_arg, exclude_dev |-> exclude_dev]

Return(value) == [kind |-> "return", value |-> value]

Built == op.name # "constructor"

\* No gitops_run task has been started.
NoRun == [pc |-> "none"]

\* The names the queries are called with: packages and external names.
QueryNames == DepNames

\* new DependencyGraph(): both maps empty.
Init ==
    /\ IsInput(NameLists(PkgNames), DepNames, Versions, PkgNames, BOOLEAN, MaxDeps)
    /\ graph = EmptyGraph
    /\ op = Call("constructor", "", FALSE)
    /\ result = Return("graph")
    /\ instances = <<>>
    /\ run = NoRun

InitGraph ==
    /\ IsInput(MonotoneNameLists(GraphPkgNames), GraphPkgNames, GraphVersions,
               GraphPrivateNames, {FALSE}, MaxEdges)
    /\ graph = EmptyGraph
    /\ op = Call("constructor", "", FALSE)
    /\ result = Return("graph")
    /\ instances = <<>>
    /\ run = NoRun

BuildFromRepos ==
    /\ ~Built
    /\ graph' = init_from_repos(graph, repos)
    /\ op' = Call("build_from_repos", "", FALSE)
    /\ result' = Return("graph")
    /\ UNCHANGED <<repos, instances, run>>

GetNode ==
    /\ Built
    /\ \E name \in QueryNames :
        /\ op' = Call("get_node", name, FALSE)
        /\ result' = Return(get_node(graph, name))
    /\ UNCHANGED <<repos, graph, instances, run>>

\* Variant: for a name that is no key of edges the new empty set is stored
\* under the name.
GetDependents_StoresDefault ==
    /\ Built
    /\ \E name \in QueryNames :
        /\ op' = Call("get_dependents", name, FALSE)
        /\ result' = Return(get_dependents(graph, name))
        /\ graph' = [graph EXCEPT !.edges =
                        IF MapHas(graph.edges, name) THEN @ ELSE MapSet(@, name, <<>>)]
    /\ UNCHANGED <<repos, instances, run>>

GetDependents ==
    /\ Built
    /\ \E name \in QueryNames :
        /\ op' = Call("get_dependents", name, FALSE)
        /\ result' = Return(get_dependents(graph, name))
    /\ UNCHANGED <<repos, graph, instances, run>>

GetDependencies ==
    /\ Built
    /\ \E name \in QueryNames :
        /\ op' = Call("get_dependencies", name, FALSE)
        /\ result' = Return(get_dependencies(graph, name))
    /\ UNCHANGED <<repos, graph, instances, run>>

TopologicalSort ==
    /\ Built
    /\ \E exclude_dev \in BOOLEAN :
        /\ op' = Call("topological_sort", "", exclude_dev)
        /\ result' = topological_sort(graph, exclude_dev)
    /\ UNCHANGED <<repos, graph, instances, run>>

ComputePublishingOrder ==
    /\ Built
    /\ op' = Call("compute_publishing_order", "", TRUE)
    /\ result' = compute_publishing_order(graph)
    /\ UNCHANGED <<repos, graph, instances, run>>

DetectCyclesByType ==
    /\ Built
    /\ op' = Call("detect_cycles_by_type", "", FALSE)
    /\ result' = Return(detect_cycles_by_type(graph))
    /\ UNCHANGED <<repos, graph, instances, run>>

Analyze ==
    /\ Built
    /\ op' = Call("analyze", "", FALSE)
    /\ result' = Return(analyze(graph))
    /\ UNCHANGED <<repos, graph, instances, run>>

ToJSON ==
    /\ Built
    /\ op' = Call("toJSON", "", FALSE)
    /\ result' = Return(toJSON(graph))
    /\ UNCHANGED <<repos, graph, instances, run>>

Next ==
    \/ BuildFromRepos
    \/ GetNode
    \/ GetDependents
    \/ GetDependencies
    \/ TopologicalSort
    \/ ComputePublishingOrder
    \/ DetectCyclesByType
    \/ Analyze
    \/ ToJSON

\* Every method, on inputs rich in sections and version ranges, over two
\* packages.
Spec == Init /\ [][Next]_vars

\* The same manifests with one version range, without the "private" and
\* missing "version" cases.
InitCalls ==
    /\ IsInput(NameLists(PkgNames), DepNames, GraphVersions, {}, {FALSE}, MaxDeps)
    /\ graph = EmptyGraph
    /\ op = Call("constructor", "", FALSE)
    /\ result = Return("graph")
    /\ instances = <<>>
    /\ run = NoRun

\* Every method, in every order of calls.
SpecCalls == InitCalls /\ [][Next]_vars

\* The ordering and cycle methods, on inputs rich in graph shapes, over
\* three packages.
NextGraph ==
    \/ BuildFromRepos
    \/ TopologicalSort
    \/ ComputePublishingOrder
    \/ DetectCyclesByType

SpecGraph == InitGraph /\ [][NextGraph]_vars

----------------------------------------------------------------------------
(* Several graphs: every call of build_from_repos creates a                *)
(* DependencyGraph object. The objects created so far are the elements of  *)
(* `instances`; the reference to an object is its index.                   *)

\* How many graphs are built.
MaxInstances == 2

\* Variant: the builder keeps the DependencyGraph it created first and
\* hands it out again.
NewDependencyGraph_Shared(heap) ==
    IF heap = <<>> THEN Append(heap, EmptyGraph) ELSE heap

\* new DependencyGraph(): one more object, both of its maps new and empty;
\* the reference to it is the last index.
NewDependencyGraph(heap) == Append(heap, EmptyGraph)

\* The repo lists a build is called with: the stretches of repos.
RepoLists ==
    {<<>>} \cup {SubSeq(repos, i, j) : i \in 1..Len(repos), j \in 1..Len(repos)}

\* A call on the graph `ref`; rs is the argument of build_from_repos.
CallOn(ref, name, rs) == [name |-> name, instance |-> ref, repos |-> rs]

InitInstances ==
    /\ IsInput(NameLists(PkgNames), PkgNames, GraphVersions, {}, {FALSE}, MaxDeps)
    /\ graph = EmptyGraph
    /\ op = CallOn(0, "none", <<>>)
    /\ result = Return("none")
    /\ instances = <<>>
    /\ run = NoRun

\* build_from_repos(rs): graph = new DependencyGraph();
\* graph.init_from_repos(rs); return graph
BuildInstance ==
    /\ Len(instances) < MaxInstances
    /\ \E rs \in RepoLists :
        LET heap == NewDependencyGraph(instances)
            ref == Len(heap)
        IN /\ instances' = [heap EXCEPT ![ref] = init_from_repos(heap[ref], rs)]
           /\ op' = CallOn(ref, "build_from_repos", rs)
           /\ result' = Return(ref)
    /\ UNCHANGED <<repos, graph, run>>

\* compute_publishing_order(graph) on one of the graphs.
SortInstance ==
    /\ \E ref \in 1..Len(instances) :
        /\ op' = CallOn(ref, "compute_publishing_order", <<>>)
        /\ result' = compute_publishing_order(instances[ref])
    /\ UNCHANGED <<repos, graph, instances, run>>

\* analyze(graph) on one of the graphs.
AnalyzeInstance ==
    /\ \E ref \in 1..Len(instances) :
        /\ op' = CallOn(ref, "analyze", <<>>)
        /\ result' = Return(analyze(instances[ref]))
    /\ UNCHANGED <<repos, graph, instances, run>>

NextInstances ==
    \/ BuildInstance
    \/ SortInstance
    \/ AnalyzeInstance

\* Builds, sorts and analyses of several graphs, in any interleaving.
SpecInstances == InitInstances /\ [][NextInstances]_vars

----------------------------------------------------------------------------
(* The gitops_run task (gitops_run.task.ts): a shell command is run in     *)
(* every repo, throttled by map_concurrent_settled, the results are        *)
(* reported, and the task throws a TaskError when a repo failed.           *)

\* How many repos the config names, and the --concurrency values tried
\* besides the default.
MaxRepos == 3
MaxConcurrency == 2

GITOPS_CONCURRENCY_DEFAULT == 5

RepoNames == <<"repo1", "repo2", "repo3", "repo4", "repo5">>

\* Args.concurrency: an integer, at least 1, GITOPS_CONCURRENCY_DEFAULT
\* when the option is absent.
ConcurrencyArgs == (1..MaxConcurrency) \cup {GITOPS_CONCURRENCY_DEFAULT}

\* What spawn_out does in one repo: the command exits ok, exits with a
\* code that is not ok, is ended by a signal (not ok, code null), or
\* spawn_out throws.
Outcomes == {"ok", "exit", "signal", "throw"}

NoError == [thrown |-> FALSE]
TaskError(message, count) == [thrown |-> TRUE, message |-> message, count |-> count]

NoOutput == [written |-> FALSE]

\* The state of one item of map_concurrent_settled.
Pending == [phase |-> "pending", outcome |-> "none"]
InFlight == [phase |-> "in_flight", outcome |-> "none"]
Settled(outcome, settled) ==
    [phase |-> "settled", outcome |-> outcome, result |-> settled]

\* The task's state right after get_repo_paths.
StartOfRun(repo_names, concurrency) ==
    [pc |-> "start",
     repos |-> repo_names,
     concurrency |-> concurrency,
     items |-> [i \in 1..Len(repo_names) |-> Pending],
     successes |-> <<>>,
     failures |-> <<>>,
     output |-> NoOutput,
     error |-> NoError]

\* The function mapped over the repos, from the return of spawn_out on:
\* the RunResult it returns, also when spawn_out has thrown.
RunCommand(repo_name, outcome) ==
    IF outcome = "throw"
    THEN [status |-> "fulfilled",
          value |-> [repo_name |-> repo_name, status |-> "failure",
                     exit_code |-> -1, has_error |-> TRUE]]
    ELSE [status |-> "fulfilled",
          value |-> [repo_name |-> repo_name,
                     status |-> IF outcome = "ok" THEN "success" ELSE "failure",
                     exit_code |-> IF outcome = "exit" THEN 1 ELSE 0,
                     has_error |-> FALSE]]

\* The RunResult pushed for a rejected result.
UnknownFailure ==
    [repo_name |-> "unknown", status |-> "failure", exit_code |-> -1, has_error |-> TRUE]

\* Variant: the loop over the results ends at the first failure.
RECURSIVE ProcessResults_StopsAtFailure(_, _)
ProcessResults_StopsAtFailure(results, acc) ==
    IF results = <<>> THEN acc
    ELSE LET settled == Head(results) IN
         IF settled.status = "fulfilled" /\ settled.value.status = "success"
         THEN ProcessResults_StopsAtFailure(Tail(results),
                [acc EXCEPT !.successes = Append(@, settled.value)])
         ELSE [acc EXCEPT !.failures = Append(@, settled.value)]

\* for (const result of results): the RunResults sorted into successes
\* and failures; acc is [successes, failures].
RECURSIVE ProcessResults(_, _)
ProcessResults(results, acc) ==
    IF results = <<>> THEN acc
    ELSE LET settled == Head(results) IN
         ProcessResults(Tail(results),
            IF settled.status = "fulfilled"
            THEN IF settled.value.status = "success"
                 THEN [acc EXCEPT !.successes = Append(@, settled.value)]
                 ELSE [acc EXCEPT !.failures = Append(@, settled.value)]
            ELSE [acc EXCEPT !.failures = Append(@, UnknownFailure)])

\* What both output formats report: the repos, successes first, and the
\* three counts of the summary.
Output(repo_names, successes, failures) ==
    [written |-> TRUE,
     repos |-> [i \in 1..(Len(successes) + Len(failures)) |->
                    (successes \o failures)[i].repo_name],
     total |-> Len(repo_names),
     success |-> Len(successes),
     failure |-> Len(failures)]

\* Variant: the task throws only when more than one repo failed.
ExitError_MoreThanOne(failures) ==
    IF Len(failures) > 1 THEN TaskError("repos failed", Len(failures)) ELSE NoError

\* if (failures.length > 0) throw new TaskError(`${failures.length} repos failed`)
ExitError(failures) ==
    IF Len(failures) > 0 THEN TaskError("repos failed", Len(failures)) ELSE NoError

\* Variant: the number of repos is passed as the limit.
ConcurrencyArgument_ReposLength(r) == Len(r.repos)

\* The limit passed to map_concurrent_settled.
ConcurrencyArgument(r) == r.concurrency

\* The items of map_concurrent_settled in a phase.
ItemsIn(r, phase) == {i \in 1..Len(r.items) : r.items[i].phase = phase}

InitRun ==
    /\ repos = <<>>
    /\ graph = EmptyGraph
    /\ op = Call("constructor", "", FALSE)
    /\ result = Return("graph")
    /\ instances = <<>>
    /\ \E n \in 0..MaxRepos : \E concurrency \in ConcurrencyArgs :
        run = StartOfRun(SubSeq(RepoNames, 1, n), concurrency)

\* if (repos.length === 0) throw new TaskError('No repos found in config');
\* otherwise map_concurrent_settled is called.
StartRun ==
    /\ run.pc = "start"
    /\ run' = IF Len(run.repos) = 0
              THEN [run EXCEPT !.pc = "task_error",
                               !.error = TaskError("No repos found in config", 0)]
              ELSE [run EXCEPT !.pc = "running"]
    /\ UNCHANGED <<repos, graph, op, result, instances>>

\* map_concurrent_settled calls the function on the next item, in the
\* order of the items, while fewer than the limit are in flight; the
\* function calls spawn_out.
StartCommand ==
    /\ run.pc = "running"
    /\ Cardinality(ItemsIn(run, "in_flight")) < ConcurrencyArgument(run)
    /\ ItemsIn(run, "pending") # {}
    /\ LET i == CHOOSE i \in ItemsIn(run, "pending") :
                    \A j \in ItemsIn(run, "pending") : i <= j
       IN run' = [run EXCEPT !.items[i] = InFlight]
    /\ UNCHANGED <<repos, graph, op, result, instances>>

\* spawn_out returns or throws in one repo, in any order of the repos in
\* flight; the function returns its RunResult and the item is settled.
FinishCommand ==
    /\ run.pc = "running"
    /\ \E i \in ItemsIn(run, "in_flight") : \E outcome \in Outcomes :
        run' = [run EXCEPT !.items[i] =
                    Settled(outcome, RunCommand(run.repos[i], outcome))]
    /\ UNCHANGED <<repos, graph, op, result, instances>>

\* map_concurrent_settled resolves when every item is settled, with the
\* results in the order of the repos; the task sorts them into successes
\* and failures and writes the output.
OutputResults ==
    /\ run.pc = "running"
    /\ ItemsIn(run, "settled") = 1..Len(run.items)
    /\ LET results == [i \in 1..Len(run.items) |-> run.items[i].result]
           sorted == ProcessResults(results, [successes |-> <<>>, failures |-> <<>>])
       IN run' = [run EXCEPT !.pc = "reported",
                             !.successes = sorted.successes,
                             !.failures = sorted.failures,
                             !.output = Output(run.repos, sorted.successes, sorted.failures)]
    /\ UNCHANGED <<repos, graph, op, result, instances>>

\* Exit with error if any failures (so CI fails).
ExitRun ==
    /\ run.pc = "reported"
    /\ run' = [run EXCEPT !.pc = IF ExitError(run.failures).thrown
                                 THEN "task_error" ELSE "done",
                          !.error = ExitError(run.failures)]
    /\ UNCHANGED <<repos, graph, op, result, instances>>

NextRun ==
    \/ StartRun
    \/ StartCommand
    \/ FinishCommand
    \/ OutputResults
    \/ ExitRun

\* One run of the task, the commands finishing in any order.
SpecRun == InitRun /\ [][NextRun]_vars

\* The same, where every continuation that is ready runs and every
\* command that was started ends.
SpecRunFair == InitRun /\ [][NextRun]_vars /\ WF_vars(NextRun)

----------------------------------------------------------------------------
(* What the properties speak of: the graph as a relation.                  *)

NodeNames(g) == Range(MapKeys(g.nodes))

Dependencies(g, name) == MapGet(g.nodes, name).dependencies

\* x records a dependency on y with a type in `types`.
Records(g, x, y, types) ==
    \E e \in Range(Dependencies(g, x)) : e[1] = y /\ e[2].type \in types

\* The pairs <<x, y>> of graph nodes where x depends on y with a type in `types`.
Edges(g, types) ==
    UNION {{<<g.nodes[i][1], d[1]>> :
                d \in {e \in Range(g.nodes[i][2].dependencies) :
                        e[2].type \in types /\ MapHas(g.nodes, e[1])}} :
            i \in 1..Len(g.nodes)}

AllTypes == {PROD, PEER, DEV}
NonDev == {PROD, PEER}

\* The edges topological_sort(exclude_dev) is to respect.
Retained(g, exclude_dev) == Edges(g, IF exclude_dev THEN NonDev ELSE AllTypes)

\* The nodes reached from the set S along E, S included.
RECURSIVE ReachFrom(_, _)
ReachFrom(E, S) ==
    LET T == S \cup {e[2] : e \in {d \in E : d[1] \in S}}
    IN IF T = S THEN S ELSE ReachFrom(E, T)

\* y is reached from x by one edge or more.
Reaches(E, x, y) == y \in ReachFrom(E, {e[2] : e \in {d \in E : d[1] = x}})

OnCycle(E, x) == Reaches(E, x, x)
HasCycle(E) == \E x \in {e[1] : e \in E} : OnCycle(E, x)

\* The edge e lies on a cycle of E.
EdgeOnCycle(E, e) == e \in E /\ (e[1] = e[2] \/ Reaches(E, e[2], e[1]))

\* The place of name in the sequence s (0 when absent).
Position(s, name) == IndexOf(s, name)

IsPermutationOf(s, S) == Range(s) = S /\ Len(s) = Cardinality(S)

SortCall(exclude_dev) ==
    \/ op.name = "topological_sort" /\ op.exclude_dev = exclude_dev
    \/ op.name = "compute_publishing_order" /\ exclude_dev

SortCalled == SortCall(TRUE) \/ SortCall(FALSE)

----------------------------------------------------------------------------
(* C1: when the prod and peer edges between graph nodes form no cycle,     *)
(* topological_sort(true) and compute_publishing_order return every node   *)
(* name exactly once, and every prod or peer dependency that is a graph    *)
(* node comes before the node that depends on it; a dependency on a name   *)
(* that is no graph node constrains nothing.                               *)
C1_PublishOrderRespectsDependencies ==
    SortCall(TRUE) =>
        LET non_dev == Edges(graph, NonDev) IN
        ~HasCycle(non_dev) =>
            /\ result.kind = "return"
            /\ IsPermutationOf(result.value, NodeNames(graph))
            /\ \A e \in non_dev :
                    Position(result.value, e[2]) < Position(result.value, e[1])

\* A publish order of three nodes, one of them private, with a chain of
\* prod/peer edges against the insertion order and an external dependency.
C1_Witness ==
    /\ op.name = "compute_publishing_order"
    /\ result.kind = "return"
    /\ Len(graph.nodes) = 3
    /\ ~HasCycle(Edges(graph, NonDev))
    /\ \E x, y, z \in NodeNames(graph) :
        /\ Records(graph, x, y, {PROD}) /\ Records(graph, y, z, {PEER})
        /\ Position(MapKeys(graph.nodes), x) < Position(MapKeys(graph.nodes), y)
        /\ Position(MapKeys(graph.nodes), y) < Position(MapKeys(graph.nodes), z)
        /\ ~MapGet(graph.nodes, z).publishable

\* An external dependency of a sorted graph: the name is no node and the
\* sort returns all nodes.
C1_WitnessExternal ==
    /\ op.name = "compute_publishing_order"
    /\ result.kind = "return"
    /\ \E x \in NodeNames(graph) : \E y \in GraphPkgNames \ NodeNames(graph) :
        \E e \in Range(Dependencies(graph, x)) : e[1] = y /\ e[2].type = PROD

----------------------------------------------------------------------------
\* g has a cycle, and no prod or peer edge of g lies on a cycle.
OnlyDevCycles(g) ==
    LET all == Edges(g, AllTypes)
    IN /\ HasCycle(all)
       /\ \A e \in Edges(g, NonDev) : ~EdgeOnCycle(all, e)

(* C2: when every cycle among graph nodes consists of dev edges only and   *)
(* there is such a cycle, topological_sort(true) and                       *)
(* compute_publishing_order return all node names and                      *)
(* topological_sort(false) throws.                                         *)
C2_DevCyclesNeverBlockPublishing ==
    (SortCalled /\ OnlyDevCycles(graph)) =>
        /\ SortCall(TRUE) =>
                result.kind = "return" /\ IsPermutationOf(result.value, NodeNames(graph))
        /\ SortCall(FALSE) => result.kind = "throw"

\* compute_publishing_order has returned on a graph with a dev cycle over
\* two nodes and a prod edge.
C2_Witness ==
    /\ op.name = "compute_publishing_order"
    /\ result.kind = "return"
    /\ OnlyDevCycles(graph)
    /\ Edges(graph, NonDev) # {}
    /\ \E x, y \in NodeNames(graph) :
        x # y /\ Records(graph, x, y, {DEV}) /\ Records(graph, y, x, {DEV})

\* topological_sort(false) has thrown on a graph whose cycles are dev only.
C2_WitnessThrow ==
    /\ op.name = "topological_sort" /\ ~op.exclude_dev
    /\ OnlyDevCycles(graph)
    /\ result.kind = "throw"

----------------------------------------------------------------------------
\* The nodes on a cycle of E and the nodes that depend on one.
Unresolved(E, nodes) ==
    LET cyclic == {c \in nodes : OnCycle(E, c)}
    IN {n \in nodes : ReachFrom(E, {n}) \cap cyclic # {}}

(* C3: topological_sort(exclude_dev) throws if and only if the retained    *)
(* edges (between graph nodes, without the dev edges when exclude_dev)     *)
(* contain a cycle, self-dependencies included; when it throws it returns  *)
(* no order and the error names the nodes left unresolved, which are the   *)
(* nodes on a cycle and the nodes that depend on one.                      *)
C3_ThrowsIffRetainedCycle ==
    SortCalled =>
        LET E == Retained(graph, op.exclude_dev)
            unresolved == Unresolved(E, NodeNames(graph))
        IN /\ result.kind = "throw" <=> HasCycle(E)
           /\ result.kind = "throw" <=> unresolved # {}
           /\ result.kind = "throw" =>
                /\ "value" \notin DOMAIN result
                /\ IsPermutationOf(result.error, unresolved)

\* topological_sort(true) has thrown on a two-node prod/prod cycle, with a
\* third node that is resolved.
C3_Witness ==
    /\ op.name = "topological_sort" /\ op.exclude_dev
    /\ result.kind = "throw"
    /\ Len(graph.nodes) = 3
    /\ Cardinality(Range(result.error)) = 2
    /\ \E x, y \in NodeNames(graph) :
        x # y /\ Records(graph, x, y, {PROD}) /\ Records(graph, y, x, {PROD})

\* A self-dependency makes the sort throw.
C3_WitnessSelf ==
    /\ SortCalled
    /\ result.kind = "throw"
    /\ \E x \in NodeNames(graph) : Retained(graph, op.exclude_dev) = {<<x, x>>}

----------------------------------------------------------------------------
DistinctNodeSets(cycles) ==
    \A i, j \in 1..Len(cycles) : i # j => Range(cycles[i]) # Range(cycles[j])

(* C4: in one call of detect_cycles_by_type no two cycles of                *)
(* production_cycles have the same set of node names, and no two cycles    *)
(* of dev_cycles have.                                                     *)
C4_NoNodeSetReportedTwice ==
    op.name = "detect_cycles_by_type" =>
        /\ DistinctNodeSets(result.value.production_cycles)
        /\ DistinctNodeSets(result.value.dev_cycles)

\* Two production cycles reported in one call, one of them over more than
\* one node and found from a root that is not the first node.
C4_Witness ==
    /\ op.name = "detect_cycles_by_type"
    /\ Len(result.value.production_cycles) >= 2
    /\ \E i \in 1..Len(result.value.production_cycles) :
        /\ Len(result.value.production_cycles[i]) >= 3
        /\ graph.nodes[1][1] \notin Range(result.value.production_cycles[i])

\* A dev cycle over three nodes.
C4_WitnessDev ==
    /\ op.name = "detect_cycles_by_type"
    /\ \E i \in 1..Len(result.value.dev_cycles) :
        Cardinality(Range(result.value.dev_cycles[i])) = 3

----------------------------------------------------------------------------
(* What the properties speak of: the manifests.                            *)

Lists(section, name) == \E e \in Range(section) : e[1] = name
RangeOf(section, name) == (CHOOSE e \in Range(section) : e[1] = name)[2]

PackageNames == {repos[i].name : i \in 1..Len(repos)}

\* How many specs the node `pkg` holds for the dependency name `name`.
SpecCount(g, pkg, name) ==
    Cardinality({k \in 1..Len(Dependencies(g, pkg)) : Dependencies(g, pkg)[k][1] = name})

----------------------------------------------------------------------------
(* C5: after init_from_repos a node holds at most one spec per dependency  *)
(* name, and a name listed in devDependencies and also in dependencies or  *)
(* peerDependencies is recorded with type prod or peer and the version     *)
(* range of that section, not of devDependencies.                          *)
C5_NonDevOverridesDev ==
    Built =>
        \A i \in 1..Len(repos) : \A name \in AllNames :
            LET pkg == repos[i]
                recorded == Dependencies(graph, pkg.name)
            IN /\ SpecCount(graph, pkg.name, name) <= 1
               /\ (/\ Lists(pkg.devDependencies, name)
                   /\ Lists(pkg.dependencies, name) \/ Lists(pkg.peerDependencies, name)) =>
                    /\ SpecCount(graph, pkg.name, name) = 1
                    /\ MapGet(recorded, name).type \in NonDev
                    /\ MapGet(recorded, name).type = PROD =>
                        /\ Lists(pkg.dependencies, name)
                        /\ MapGet(recorded, name).version = RangeOf(pkg.dependencies, name)
                    /\ MapGet(recorded, name).type = PEER =>
                        /\ Lists(pkg.peerDependencies, name)
                        /\ MapGet(recorded, name).version = RangeOf(pkg.peerDependencies, name)

\* A built graph of a package that lists a name under dependencies and
\* under devDependencies with different ranges.
C5_Witness ==
    /\ Built
    /\ \E i \in 1..Len(repos) : \E name \in AllNames :
        /\ Lists(repos[i].devDependencies, name)
        /\ Lists(repos[i].dependencies, name)
        /\ RangeOf(repos[i].devDependencies, name) # RangeOf(repos[i].dependencies, name)
        /\ MapGet(Dependencies(graph, repos[i].name), name).type = PROD

----------------------------------------------------------------------------
(* C6, as stated: a name listed in dependencies and in peerDependencies of  *)
(* one package is recorded with type prod and the production range.        *)
C6_ProdOverridesPeer ==
    Built =>
        \A i \in 1..Len(repos) : \A name \in AllNames :
            (Lists(repos[i].dependencies, name) /\ Lists(repos[i].peerDependencies, name)) =>
                /\ SpecCount(graph, repos[i].name, name) = 1
                /\ MapGet(Dependencies(graph, repos[i].name), name) =
                        [type |-> PROD, version |-> RangeOf(repos[i].dependencies, name)]

(* C6, as amended: the sections are merged in the order dependencies, then  *)
(* peerDependencies (which overwrites), then devDependencies (only where   *)
(* the name is absent), so a name listed in dependencies and in            *)
(* peerDependencies is recorded once, with type peer and the peer range.   *)
C6_PeerOverridesProd ==
    Built =>
        \A i \in 1..Len(repos) : \A name \in AllNames :
            (Lists(repos[i].dependencies, name) /\ Lists(repos[i].peerDependencies, name)) =>
                /\ SpecCount(graph, repos[i].name, name) = 1
                /\ MapGet(Dependencies(graph, repos[i].name), name) =
                        [type |-> PEER, version |-> RangeOf(repos[i].peerDependencies, name)]

\* A built graph of a package that lists a name under dependencies and
\* under peerDependencies with different ranges.
C6_Witness ==
    /\ Built
    /\ \E i \in 1..Len(repos) : \E name \in AllNames :
        /\ Lists(repos[i].dependencies, name)
        /\ Lists(repos[i].peerDependencies, name)
        /\ RangeOf(repos[i].dependencies, name) # RangeOf(repos[i].peerDependencies, name)

----------------------------------------------------------------------------
\* The graph nodes that record a dependency on name.
DependentsOf(g, name) == {m \in NodeNames(g) : MapHas(Dependencies(g, m), name)}

(* C7: edges and nodes have the same keys; edges[n] and                    *)
(* nodes[n].dependents are exactly the graph nodes that record a           *)
(* dependency on n; a dependency on a name that is no graph node stays in  *)
(* the node's dependencies and adds nothing to edges or dependents; the    *)
(* edges of toJSON are these pairs.                                        *)
C7_EdgesAreTheDependents ==
    /\ Range(MapKeys(graph.edges)) = NodeNames(graph)
    /\ Len(graph.edges) = Len(graph.nodes)
    /\ \A n \in NodeNames(graph) :
        /\ Range(MapGet(graph.edges, n)) = DependentsOf(graph, n)
        /\ Range(MapGet(graph.nodes, n).dependents) = DependentsOf(graph, n)
    /\ Built =>
        /\ NodeNames(graph) = PackageNames
        /\ \A i \in 1..Len(repos) : \A name \in AllNames :
            (\/ Lists(repos[i].dependencies, name)
             \/ Lists(repos[i].peerDependencies, name)
             \/ Lists(repos[i].devDependencies, name)) =>
                MapHas(Dependencies(graph, repos[i].name), name)
    /\ op.name = "toJSON" =>
        {<<result.value.edges[k].from, result.value.edges[k].to>> :
            k \in 1..Len(result.value.edges)}
        = {e \in NodeNames(graph) \X NodeNames(graph) : e[2] \in DependentsOf(graph, e[1])}

\* toJSON of a graph of two nodes where one depends on the other and on an
\* external name.
C7_Witness ==
    /\ op.name = "toJSON"
    /\ Len(result.value.edges) = 1
    /\ \E x \in NodeNames(graph) :
        /\ MapHas(Dependencies(graph, x), "ext")
        /\ \E y \in NodeNames(graph) : y # x /\ MapGet(graph.edges, y) = <<x>>

----------------------------------------------------------------------------
\* The last call is one of the three queries by name.
QueryCalled == op.name \in {"get_node", "get_dependents", "get_dependencies"}

(* C8: for a name that is no node of the graph get_dependents returns an   *)
(* empty set, get_dependencies an empty mapping and get_node undefined;    *)
(* none throws and none adds the name to nodes or edges.                   *)
C8_UnknownNamesGiveEmptyResults ==
    (QueryCalled /\ op.name_arg \notin PackageNames) =>
        /\ result.kind = "return"
        /\ op.name = "get_node" => ~result.value.defined
        /\ op.name = "get_dependents" =>
                result.value.defined /\ result.value.value = <<>>
        /\ op.name = "get_dependencies" =>
                result.value.defined /\ result.value.value = <<>>
        /\ ~MapHas(graph.nodes, op.name_arg)
        /\ ~MapHas(graph.edges, op.name_arg)

\* get_dependents("ext") on a graph one of whose nodes has the peer
\* dependency ext, which is no node.
C8_Witness ==
    /\ op.name = "get_dependents" /\ op.name_arg = "ext"
    /\ "ext" \notin NodeNames(graph)
    /\ \E x \in NodeNames(graph) : Records(graph, x, "ext", {PEER})

----------------------------------------------------------------------------
\* The recorded specs whose version is the wildcard.
WildcardSpecs(g) ==
    UNION {{[pkg |-> x, dep |-> e[1], version |-> e[2].version] :
                e \in {d \in Range(Dependencies(g, x)) : d[2].version = "*"}} :
            x \in NodeNames(g)}

(* C9: wildcard_deps of analyze holds {pkg, dep, version} exactly for the  *)
(* recorded specs whose version is '*', of any type and whether or not     *)
(* the target is a graph node, each once.                                  *)
C9_WildcardDepsAreTheStarVersions ==
    op.name = "analyze" =>
        /\ Range(result.value.wildcard_deps) = WildcardSpecs(graph)
        /\ Len(result.value.wildcard_deps) = Cardinality(WildcardSpecs(graph))

\* analyze of a graph with a dev dependency '*' on an external name and a
\* dependency with another range.
C9_Witness ==
    /\ op.name = "analyze"
    /\ Len(result.value.wildcard_deps) = 1
    /\ result.value.wildcard_deps[1].dep \notin NodeNames(graph)
    /\ \E x \in NodeNames(graph) :
        /\ Records(graph, x, result.value.wildcard_deps[1].dep, {DEV})
        /\ \E e \in Range(Dependencies(graph, x)) : e[2].version # "*"

----------------------------------------------------------------------------
\* The recorded peer specs whose name is no graph node.
MissingPeerSpecs(g) ==
    UNION {{[pkg |-> x, dep |-> e[1]] :
                e \in {d \in Range(Dependencies(g, x)) :
                        d[2].type = PEER /\ d[1] \notin NodeNames(g)}} :
            x \in NodeNames(g)}

(* C10: missing_peers of analyze holds {pkg, dep} exactly for the recorded *)
(* specs of type peer whose name is no node of the graph.                  *)
C10_MissingPeersAreTheExternalPeers ==
    op.name = "analyze" =>
        /\ Range(result.value.missing_peers) = MissingPeerSpecs(graph)
        /\ Len(result.value.missing_peers) = Cardinality(MissingPeerSpecs(graph))

\* analyze of a graph where a has the peer dependency ext, which is no
\* node, and a prod dependency on another name that is no node.
C10_Witness ==
    /\ op.name = "analyze"
    /\ result.value.missing_peers = <<[pkg |-> "a", dep |-> "ext"]>>
    /\ \E name \in AllNames \ NodeNames(graph) : Records(graph, "a", name, {PROD})

----------------------------------------------------------------------------
\* cycle is a closed path of g: it ends where it starts and each of its steps
\* is a recorded dependency, of a type in `types`, of a graph node on a
\* graph node.
IsClosedPath(g, cycle, types) ==
    /\ Len(cycle) >= 2
    /\ cycle[1] = cycle[Len(cycle)]
    /\ \A k \in 1..(Len(cycle) - 1) :
        /\ cycle[k] \in NodeNames(g)
        /\ cycle[k + 1] \in NodeNames(g)
        /\ Records(g, cycle[k], cycle[k + 1], types)

\* The edges between the nodes of g are those of one cycle over two nodes,
\* both of a type in `types`.
IsTwoNodeCycle(g, types) ==
    LET all == Edges(g, AllTypes)
    IN /\ Cardinality(all) = 2
       /\ \E e \in all : e[1] # e[2] /\ all = {e, <<e[2], e[1]>>}
       /\ Edges(g, types) = all

\* cycles is one cycle, over the two nodes of the graph's only cycle.
IsTheTwoNodeCycle(g, cycles) ==
    /\ Len(cycles) = 1
    /\ Cardinality(Range(cycles[1])) = 2
    /\ \A x \in Range(cycles[1]) : \E e \in Edges(g, AllTypes) : e[1] = x

(* C11: every cycle reported by detect_cycles_by_type is a closed path of   *)
(* the graph: first and last name equal, each step a recorded dependency  *)
(* on a graph node, of type prod or peer in production_cycles and of type  *)
(* dev in dev_cycles; a graph whose edges are one dev/dev cycle over two   *)
(* nodes gives one dev cycle over them and no production cycle, and one    *)
(* prod/prod cycle gives one production cycle and no dev cycle.            *)
C11_CyclesAreClosedPathsOfTheirType ==
    op.name = "detect_cycles_by_type" =>
        LET production_cycles == result.value.production_cycles
            dev_cycles == result.value.dev_cycles
        IN /\ \A i \in 1..Len(production_cycles) :
                IsClosedPath(graph, production_cycles[i], NonDev)
           /\ \A i \in 1..Len(dev_cycles) :
                IsClosedPath(graph, dev_cycles[i], {DEV})
           /\ IsTwoNodeCycle(graph, {DEV}) =>
                IsTheTwoNodeCycle(graph, dev_cycles) /\ production_cycles = <<>>
           /\ IsTwoNodeCycle(graph, {PROD}) =>
                IsTheTwoNodeCycle(graph, production_cycles) /\ dev_cycles = <<>>

\* A production cycle over two nodes with a prod and a peer step, found in
\* a graph that also has a dev edge.
C11_Witness ==
    /\ op.name = "detect_cycles_by_type"
    /\ \E i \in 1..Len(result.value.production_cycles) :
        LET cycle == result.value.production_cycles[i]
        IN /\ Len(cycle) = 3
           /\ Records(graph, cycle[1], cycle[2], {PROD})
           /\ Records(graph, cycle[2], cycle[3], {PEER})
    /\ Edges(graph, {DEV}) # {}

\* The dev/dev cycle over two nodes, reported as the one dev cycle.
C11_WitnessDevCycle ==
    /\ op.name = "detect_cycles_by_type"
    /\ IsTwoNodeCycle(graph, {DEV})
    /\ Len(result.value.dev_cycles) = 1

\* The prod/prod cycle over two nodes, reported as the one production cycle.
C11_WitnessProdCycle ==
    /\ op.name = "detect_cycles_by_type"
    /\ IsTwoNodeCycle(graph, {PROD})
    /\ Len(result.value.production_cycles) = 1

----------------------------------------------------------------------------
\* The names of the cycles of a list.
CycleNodes(cycles) == UNION {Range(cycles[i]) : i \in 1..Len(cycles)}

(* C17: on every graph compute_publishing_order, which is                   *)
(* topological_sort(true), throws if and only if detect_cycles_by_type     *)
(* reports a production cycle, and every node of a reported production     *)
(* cycle lies on a cycle of prod and peer edges.                           *)
C17_SortFailsIffProductionCycle ==
    op.name = "detect_cycles_by_type" =>
        /\ result.value.production_cycles # <<>> <=>
                compute_publishing_order(graph).kind = "throw"
        /\ \A x \in CycleNodes(result.value.production_cycles) :
                OnCycle(Edges(graph, NonDev), x)

\* detect_cycles_by_type has reported one production cycle, over two
\* nodes and not reached from the first node, on a graph on which
\* compute_publishing_order throws with a third node unresolved that is on
\* no cycle.
C17_Witness ==
    /\ op.name = "detect_cycles_by_type"
    /\ Len(graph.nodes) = 3
    /\ Len(result.value.production_cycles) = 1
    /\ LET on_cycle == CycleNodes(result.value.production_cycles)
           order == compute_publishing_order(graph)
       IN /\ Cardinality(on_cycle) = 2
          /\ graph.nodes[1][1] \notin on_cycle
          /\ graph.nodes[1][1] \notin ReachFrom(Edges(graph, NonDev), on_cycle)
          /\ order.kind = "throw"
          /\ Len(order.error) = 3

\* detect_cycles_by_type has reported no production cycle on a graph with
\* a dev cycle, which compute_publishing_order sorts.
C17_WitnessNoCycle ==
    /\ op.name = "detect_cycles_by_type"
    /\ result.value.production_cycles = <<>>
    /\ result.value.dev_cycles # <<>>
    /\ Edges(graph, NonDev) # {}

----------------------------------------------------------------------------
\* g has a cycle, and each of its cycles has a dev edge and a prod or peer
\* edge.
OnlyMixedCycles(g) ==
    /\ HasCycle(Edges(g, AllTypes))
    /\ ~HasCycle(Edges(g, {DEV}))
    /\ ~HasCycle(Edges(g, NonDev))

(* C18: on a graph all of whose cycles mix a dev edge with a prod or peer   *)
(* edge, detect_cycles_by_type returns no production cycle and no dev      *)
(* cycle, topological_sort(true) and compute_publishing_order return all   *)
(* node names, and topological_sort(false) throws.                         *)
C18_MixedCyclesAreSeenByNoSearch ==
    ((SortCalled \/ op.name = "detect_cycles_by_type") /\ OnlyMixedCycles(graph)) =>
        /\ op.name = "detect_cycles_by_type" =>
                /\ result.value.production_cycles = <<>>
                /\ result.value.dev_cycles = <<>>
        /\ SortCall(TRUE) =>
                result.kind = "return" /\ IsPermutationOf(result.value, NodeNames(graph))
        /\ SortCall(FALSE) => result.kind = "throw"

\* detect_cycles_by_type on a graph whose one cycle runs over three nodes
\* by a prod, a peer and a dev edge.
C18_Witness ==
    /\ op.name = "detect_cycles_by_type"
    /\ OnlyMixedCycles(graph)
    /\ \E x, y, z \in NodeNames(graph) :
        /\ Records(graph, x, y, {PROD})
        /\ Records(graph, y, z, {PEER})
        /\ Records(graph, z, x, {DEV})

\* topological_sort(false) has thrown where a depends on b as prod and b on
\* a as dev.
C18_WitnessThrow ==
    /\ op.name = "topological_sort" /\ ~op.exclude_dev
    /\ result.kind = "throw"
    /\ {"a", "b"} \subseteq NodeNames(graph)
    /\ Records(graph, "a", "b", {PROD})
    /\ Records(graph, "b", "a", {DEV})
    /\ OnlyMixedCycles(graph)

\* topological_sort(true) has returned on such a graph.
C18_WitnessReturn ==
    /\ op.name = "topological_sort" /\ op.exclude_dev
    /\ result.kind = "return"
    /\ OnlyMixedCycles(graph)

----------------------------------------------------------------------------
\* What the method call `call` returns or throws on the graph g.
ResultOf(g, call) ==
    CASE call.name = "get_node" -> Return(get_node(g, call.name_arg))
      [] call.name = "get_dependents" -> Return(get_dependents(g, call.name_arg))
      [] call.name = "get_dependencies" -> Return(get_dependencies(g, call.name_arg))
      [] call.name = "topological_sort" -> topological_sort(g, call.exclude_dev)
      [] call.name = "compute_publishing_order" -> compute_publishing_order(g)
      [] call.name = "detect_cycles_by_type" -> Return(detect_cycles_by_type(g))
      [] call.name = "analyze" -> Return(analyze(g))
      [] call.name = "toJSON" -> Return(toJSON(g))

(* C15: every call made on a built graph (get_node, get_dependents,         *)
(* get_dependencies, topological_sort whether it returns or throws,        *)
(* compute_publishing_order, detect_cycles_by_type, analyze, toJSON)       *)
(* leaves nodes, with each node's dependencies and dependents, and edges   *)
(* as they are, and returns what the same call returns when it is the      *)
(* first call on the graph freshly built from the repos.                   *)
C15_MethodsLeaveTheGraphUnchanged ==
    [][Built =>
        /\ graph' = graph
        /\ result' = ResultOf(build_from_repos(repos), op')]_vars

\* topological_sort(false) has thrown on a graph with dependents and a
\* dependency on a name that is no node, and the graph is still the one
\* built from the repos.
C15_Witness ==
    /\ op.name = "topological_sort" /\ ~op.exclude_dev
    /\ result.kind = "throw"
    /\ graph = build_from_repos(repos)
    /\ \E x \in NodeNames(graph) :
        /\ MapGet(graph.edges, x) # <<>>
        /\ \E name \in AllNames \ NodeNames(graph) : MapHas(Dependencies(graph, x), name)

\* get_dependents of a name that is no node has returned, and the graph is
\* still the one built from the repos.
C15_WitnessUnknownName ==
    /\ op.name = "get_dependents"
    /\ op.name_arg \notin NodeNames(graph)
    /\ graph # EmptyGraph
    /\ graph = build_from_repos(repos)

----------------------------------------------------------------------------
(* C16: every call of build_from_repos returns a graph that did not exist   *)
(* before the call and that holds exactly what the call builds from its    *)
(* repos; and no build, sort or analysis, of whichever graph, changes the  *)
(* nodes or edges of a graph that exists, also when two graphs are built   *)
(* from the same repos.                                                    *)
C16_GraphsShareNoState ==
    [][/\ \A ref \in 1..Len(instances) :
            Len(instances') >= ref /\ instances'[ref] = instances[ref]
       /\ op'.name = "build_from_repos" =>
            /\ op'.instance \notin 1..Len(instances)
            /\ instances'[op'.instance] = build_from_repos(op'.repos)]_vars

\* Two graphs built from the same two repos, one of which depends on the
\* other, after the analysis of the second.
C16_Witness ==
    /\ Len(instances) = 2
    /\ instances[1] = instances[2]
    /\ Len(instances[1].nodes) = 2
    /\ \E i \in 1..Len(instances[1].edges) : instances[1].edges[i][2] # <<>>
    /\ op.name = "analyze" /\ op.instance = 2

\* A second graph built from other repos than the first, which keeps its
\* one node.
C16_WitnessOtherRepos ==
    /\ Len(instances) = 2
    /\ op.name = "build_from_repos" /\ op.instance = 2
    /\ Len(instances[1].nodes) = 1
    /\ Len(instances[2].nodes) = 2

----------------------------------------------------------------------------
(* What the properties speak of: the run.                                  *)

RunEnded == run.pc \in {"done", "task_error"}

\* The repos whose command has been started.
Started == ItemsIn(run, "in_flight") \cup ItemsIn(run, "settled")

\* The repos whose command has failed: an exit that is not ok, or a thrown
\* spawn error.
Failed == {i \in ItemsIn(run, "settled") : run.items[i].outcome # "ok"}

\* The names of the repos a list of RunResults is about.
ReportedNames(run_results) == [i \in 1..Len(run_results) |-> run_results[i].repo_name]

\* How often name occurs in names.
Occurrences(names, name) == Cardinality({i \in 1..Len(names) : names[i] = name})

----------------------------------------------------------------------------
(* C12: every run of gitops_run on a non-empty repo list ends, whatever    *)
(* the commands do (exit ok, exit not ok, thrown spawn error) and in       *)
(* whatever order they finish; when it has ended the command was started   *)
(* for every repo, every repo has exactly one result, among the successes  *)
(* or among the failures, and successes plus failures are as many as the   *)
(* repos; so no failure keeps a later repo's command from being started.   *)
C12_EveryRepoIsRunAndReported ==
    /\ <>RunEnded
    /\ [](RunEnded /\ run.repos # <<>> =>
            /\ Started = 1..Len(run.repos)
            /\ ItemsIn(run, "settled") = 1..Len(run.repos)
            /\ Len(run.successes) + Len(run.failures) = Len(run.repos)
            /\ \A i \in 1..Len(run.repos) :
                /\ Occurrences(ReportedNames(run.successes \o run.failures),
                               run.repos[i]) = 1
                /\ Occurrences(ReportedNames(run.successes), run.repos[i]) = 1
                        <=> run.items[i].outcome = "ok")

\* A run of three repos one at a time has ended: the command of the first
\* repo threw, that of the second exited not ok, that of the third ok.
C12_Witness ==
    /\ RunEnded
    /\ Len(run.repos) = 3
    /\ run.concurrency = 1
    /\ run.items[1].outcome = "throw"
    /\ run.items[2].outcome = "exit"
    /\ run.items[3].outcome = "ok"
    /\ Len(run.successes) = 1
    /\ Len(run.failures) = 2

----------------------------------------------------------------------------
(* C13: at every moment of a run at most `concurrency` commands are in     *)
(* flight (started and not finished), for every number of repos, every     *)
(* concurrency of at least 1, the default included, and every order in     *)
(* which the commands finish.                                              *)
C13_InFlightWithinConcurrency ==
    /\ run.concurrency >= 1
    /\ Cardinality(ItemsIn(run, "in_flight")) <= run.concurrency

\* With concurrency 2 and three repos: the second repo's command has
\* finished before the first one's, the first and the third are in flight.
C13_Witness ==
    /\ run.pc = "running"
    /\ run.concurrency = 2
    /\ Len(run.repos) = 3
    /\ ItemsIn(run, "in_flight") = {1, 3}
    /\ ItemsIn(run, "settled") = {2}

\* With the default concurrency every command of three repos is in flight.
C13_WitnessDefault ==
    /\ run.concurrency = GITOPS_CONCURRENCY_DEFAULT
    /\ ItemsIn(run, "in_flight") = {1, 2, 3}

----------------------------------------------------------------------------
(* C14: a run that has ended has ended with a TaskError if and only if     *)
(* the repo list is empty or the command of at least one repo failed (an   *)
(* exit that is not ok, or a thrown spawn error); the TaskError of a       *)
(* failure is thrown only when every repo's command has finished and the   *)
(* results have been output; with an empty repo list no command is         *)
(* started and nothing is output.                                          *)
C14_TaskErrorIffEmptyOrFailed ==
    /\ RunEnded =>
        /\ run.pc = "task_error" <=> (run.repos = <<>> \/ Failed # {})
        /\ run.pc = "task_error" <=> run.error.thrown
    /\ (run.pc = "task_error" /\ run.repos # <<>>) =>
        /\ ItemsIn(run, "settled") = 1..Len(run.repos)
        /\ run.output.written
        /\ run.output.failure = Cardinality(Failed)
        /\ run.error.message = "repos failed"
        /\ run.error.count = Cardinality(Failed)
    /\ run.repos = <<>> =>
        /\ Started = {}
        /\ run.pc \in {"start", "task_error"}
        /\ ~run.output.written
        /\ run.pc = "task_error" => run.error.message = "No repos found in config"

\* A run has ended with a TaskError for the one failure among three repos,
\* a command ended by a signal, whose exit code is reported as 0.
C14_Witness ==
    /\ run.pc = "task_error"
    /\ Len(run.repos) = 3
    /\ Cardinality(Failed) = 1
    /\ \E i \in Failed : run.items[i].outcome = "signal"
    /\ Len(run.failures) = 1
    /\ run.failures[1].exit_code = 0

\* A run with an empty repo list has ended with a TaskError.
C14_WitnessEmpty ==
    /\ run.pc = "task_error"
    /\ run.repos = <<>>

\* A run has ended without error.
C14_WitnessDone ==
    /\ run.pc = "done"
    /\ Len(run.repos) = 3

====
